---- MODULE Spec2Model ----
(***************************************************************************)
(* A model of the tokio-smtp client: the frame codec (dot-stuffing encoder *)
(* and reply decoder), the connection handshake (banner, EHLO, STARTTLS,   *)
(* AUTH) and the pipelined envelope driver (sendmail).                     *)
(***************************************************************************)
EXTENDS Integers, Sequences, FiniteSets, TLC

\* ------------------------------------------------------------------ bounds
MaxBody == 4
MaxReplies == 3
MaxRcpt == 2
MaxChunk == 2
MaxWire == 5

\* ------------------------------------------------------------------- bytes
\* The body bytes the encoder distinguishes, and one stand-in for the rest.
CR == "CR"
LF == "LF"
DOT == "DOT"
Byte == {CR, LF, DOT, "X"}

RECURSIVE SeqsUpTo(_, _)
SeqsUpTo(S, n) ==
    IF n = 0 THEN {<<>>}
    ELSE LET shorter == SeqsUpTo(S, n - 1)
         IN  shorter \cup {Append(s, x) : s \in {t \in shorter : Len(t) = n - 1}, x \in S}

Bodies == SeqsUpTo(Byte, MaxBody)

VARIABLES
    escape_count,   \* ClientCodec.escape_count
    wire,           \* every byte the client has put on the transport, in order
    body,           \* the bytes of the mail body stream
    pos,            \* how many body bytes have been handed to the encoder
    encPhase,       \* encoder harness: "idle", "body" or "ended"
    bodyStart,      \* Len(wire) when the first body frame was encoded
    cuts,           \* the chunk boundaries used so far (positions in body)
    endFrom,        \* escape_count when BodyEnd was encoded (-1 before)
    endAt,          \* Len(wire) when BodyEnd was encoded
    emitted,        \* the bytes the chunk frames have put in buf, in order
    rbuf,           \* the framed transport's read buffer (BytesMut)
    inReplies,      \* decoder harness: the replies the peer sends, in order
    arrived,        \* decoder harness: how many of their bytes have arrived
    frames,         \* the reply frames decode has returned, in order
    decErr,         \* decode returned Err (malformed response)
    security,       \* params.security: "None", "Optional", "Required", "Immediate"
    auth,           \* params.auth.is_some()
    nrcpt,          \* recipients.len()
    io,             \* the ClientIo variant under the framed transport
    pc,             \* where the connect / sendmail future chain stands
    await_opening,  \* handshake parameter
    do_auth,        \* handshake parameter
    ehlo_response,  \* the EHLO reply of the current handshake
    tlsUpgrades,    \* how often connect_async (the TLS upgrader) was invoked
    connResult,     \* what connect resolved to: "pending", "ok" or the error
    net,            \* bytes the server has sent that the client has not read
    cmds,           \* the commands written so far, as the server counts them
    srvReplied,     \* how many of them the server has answered
    srvBanner,      \* the server has sent its opening banner
    srvClosed,      \* the server has closed the connection
    srvSent,        \* what the server has sent: its banner, then its reply to each command
    srvTls,         \* the server accepted STARTTLS
    srvData,        \* the server answered DATA with 354
    nextReq,        \* pipeline: the next request to write (index into the calls)
    in_flight,      \* pipeline: requests written and awaiting a response
    responses,      \* the response delivered to each call (NoReply: none yet)
    out_body,       \* pipeline: a request body is being streamed
    result,         \* what sendmail resolved to
    envStart,       \* Len(wire) when sendmail submitted its requests
    request,        \* a Request value to be formatted
    rendered        \* what Display wrote for it (empty before)

encVars == <<body, pos, encPhase, bodyStart, cuts, endFrom, endAt, emitted>>
decVars == <<rbuf, inReplies, arrived, frames, decErr>>
paramVars == <<security, auth, nrcpt>>
connVars == <<io, pc, await_opening, do_auth, ehlo_response, tlsUpgrades, connResult>>
srvVars == <<net, cmds, srvReplied, srvBanner, srvClosed, srvSent, srvTls, srvData>>
envVars == <<nextReq, in_flight, responses, out_body, result, envStart>>
sessVars == <<paramVars, connVars, srvVars, envVars>>
fmtVars == <<request, rendered>>
vars == <<escape_count, wire, encVars, decVars, sessVars, fmtVars>>

\* The state of the parts a specification does not exercise.
EncIdle ==
    /\ body = <<>>
    /\ pos = 0
    /\ encPhase = "off"
    /\ bodyStart = 0
    /\ cuts = {}
    /\ endFrom = -1
    /\ endAt = 0
    /\ emitted = <<>>

DecIdle ==
    /\ rbuf = <<>>
    /\ inReplies = <<>>
    /\ arrived = 0
    /\ frames = <<>>
    /\ decErr = FALSE

SessIdle ==
    /\ security = "None"
    /\ auth = FALSE
    /\ nrcpt = 0
    /\ io = "Plain"
    /\ pc = "off"
    /\ await_opening = FALSE
    /\ do_auth = FALSE
    /\ ehlo_response = [code |-> "", text |-> <<>>]
    /\ tlsUpgrades = 0
    /\ connResult = "pending"
    /\ net = <<>>
    /\ cmds = <<>>
    /\ srvReplied = 0
    /\ srvBanner = FALSE
    /\ srvClosed = FALSE
    /\ srvSent = <<>>
    /\ srvTls = FALSE
    /\ srvData = FALSE
    /\ nextReq = 1
    /\ in_flight = <<>>
    /\ responses = <<>>
    /\ out_body = FALSE
    /\ result = [kind |-> "pending", code |-> ""]
    /\ envStart = 0

FmtIdle ==
    /\ request = [kind |-> "None", id |-> <<>>, mailbox |-> <<>>, params |-> <<>>]
    /\ rendered = <<>>

\* ----------------------------------------------------------------- encoder
\* A match on escape_count whose arm 1 keeps the count on a byte other than LF.
EscapeStepKeep(ec, byte) ==
    CASE ec = 0 -> IF byte = CR THEN 1 ELSE 0
      [] ec = 1 -> IF byte = LF THEN 2 ELSE 1
      [] ec = 2 -> IF byte = DOT THEN 3 ELSE 0

\* The per-byte match on escape_count.
EscapeStep(ec, byte) ==
    CASE ec = 0 -> IF byte = CR THEN 1 ELSE 0
      [] ec = 1 -> IF byte = LF THEN 2 ELSE 0
      [] ec = 2 -> IF byte = DOT THEN 3 ELSE 0

\* The loop over the chunk: idx is the (1-based) index of the next byte, start
\* the index of the first byte not yet copied to buf.
RECURSIVE EncodeLoop(_, _, _, _, _)
EncodeLoop(chunk, idx, start, ec, buf) ==
    IF idx > Len(chunk)
    THEN [escape_count |-> ec, buf |-> buf \o SubSeq(chunk, start, Len(chunk))]
    ELSE LET e == EscapeStep(ec, chunk[idx])
         IN  IF e = 3
             THEN EncodeLoop(chunk, idx + 1, idx, 0,
                             (buf \o SubSeq(chunk, start, idx - 1)) \o <<DOT>>)
             ELSE EncodeLoop(chunk, idx + 1, start, e, buf)

\* encode(Frame::Body { chunk: Some(chunk) })
EncodeChunkFresh(ec, chunk) == EncodeLoop(chunk, 1, 1, 0, <<>>)

EncodeChunk(ec, chunk) == EncodeLoop(chunk, 1, 1, ec, <<>>)

\* encode(Frame::Body { chunk: None }): the bytes that complete the terminator.
BodyEndBytesAlwaysFull(ec) == <<CR, LF, DOT, CR, LF>>

BodyEndBytes(ec) ==
    CASE ec = 0 -> <<CR, LF, DOT, CR, LF>>
      [] ec = 1 -> <<LF, DOT, CR, LF>>
      [] ec = 2 -> <<DOT, CR, LF>>

\* Request::Data rendered by Display.
RenderData == <<"DATA", CR, LF>>

\* encode(Frame::Message): the rendering is appended, the counter untouched.
EncMessage ==
    /\ encPhase = "idle"
    /\ wire' = wire \o RenderData
    /\ bodyStart' = Len(wire')
    /\ encPhase' = "body"
    /\ UNCHANGED <<fmtVars, escape_count, body, pos, cuts, endFrom, endAt, emitted,
                   decVars, sessVars>>

\* encode of the next chunk of the body, of any length (the partition is free).
EncChunk ==
    /\ encPhase = "body"
    /\ \E k \in 0..(Len(body) - pos) :
          LET r == EncodeChunk(escape_count, SubSeq(body, pos + 1, pos + k))
          IN  /\ wire' = wire \o r.buf
              /\ escape_count' = r.escape_count
              /\ pos' = pos + k
              /\ cuts' = cuts \cup {pos + k}
              /\ emitted' = emitted \o r.buf
    /\ UNCHANGED <<fmtVars, body, encPhase, bodyStart, endFrom, endAt, decVars, sessVars>>

\* encode of BodyEnd, once the body stream is exhausted.
EncBodyEnd ==
    /\ encPhase = "body"
    /\ pos = Len(body)
    /\ wire' = wire \o BodyEndBytes(escape_count)
    /\ endFrom' = escape_count
    /\ endAt' = Len(wire)
    /\ escape_count' = 0
    /\ encPhase' = "ended"
    /\ UNCHANGED <<fmtVars, body, pos, bodyStart, cuts, emitted, decVars, sessVars>>

InitEnc ==
    /\ FmtIdle
    /\ escape_count = 0
    /\ wire = <<>>
    /\ body \in Bodies
    /\ pos = 0
    /\ encPhase = "idle"
    /\ bodyStart = 0
    /\ cuts = {}
    /\ endFrom = -1
    /\ endAt = 0
    /\ emitted = <<>>
    /\ DecIdle
    /\ SessIdle

NextEnc == EncMessage \/ EncChunk \/ EncBodyEnd

SpecEnc == InitEnc /\ [][NextEnc]_vars

\* ------------------------------------------------- encoder: the claims
\* The bytes put on the wire for the body frames (chunks and BodyEnd).
BodyWire == SubSeq(wire, bodyStart + 1, Len(wire))

Terminator == <<CR, LF, DOT, CR, LF>>

Suffix(s, n) == SubSeq(s, Len(s) - n + 1, Len(s))

Occurrences(s, pat) ==
    {i \in 1..(Len(s) - Len(pat) + 1) : SubSeq(s, i, i + Len(pat) - 1) = pat}

\* escape of the specification: one extra '.' after every CR LF '.' of B.
RECURSIVE EscapeFrom(_, _)
EscapeFrom(B, i) ==
    IF i > Len(B) THEN <<>>
    ELSE IF i >= 3 /\ B[i] = DOT /\ B[i - 1] = LF /\ B[i - 2] = CR
         THEN <<DOT, DOT>> \o EscapeFrom(B, i + 1)
         ELSE <<B[i]>> \o EscapeFrom(B, i + 1)

Escape(B) == EscapeFrom(B, 1)

\* C1: the bytes of the chunks followed by BodyEnd contain CR LF '.' CR LF
\* exactly once, as their final five bytes.
C1_SingleTerminator ==
    encPhase = "ended" =>
        /\ Cardinality(Occurrences(BodyWire, Terminator)) = 1
        /\ Len(BodyWire) >= 5
        /\ Suffix(BodyWire, 5) = Terminator

\* C2: the concatenated outputs of the chunk frames equal escape(B) for the
\* bytes B encoded so far.
C2_ChunksEqualEscape ==
    encPhase = "body" => BodyWire = Escape(SubSeq(body, 1, pos))

\* The wire bytes of the whole body encoded as a single chunk, then BodyEnd.
OneChunkWire(B) ==
    LET r == EncodeChunk(0, B)
    IN  r.buf \o BodyEndBytes(r.escape_count)

\* C3: whatever the partition into chunks (empty chunks and boundaries inside
\* CR LF '.' included), the wire bytes are those of the one-chunk partition.
C3_PartitionIndependent ==
    encPhase = "ended" => BodyWire = OneChunkWire(body)

\* C3 witness: a boundary between CR and LF of a CR LF '.', and the stuffed wire.
C3_Witness ==
    /\ encPhase = "ended"
    /\ body = <<"X", CR, LF, DOT>>
    /\ 2 \in cuts
    /\ BodyWire = <<"X", CR, LF, DOT, DOT, CR, LF, DOT, CR, LF>>

\* C4: a '.' as the first byte of the body (the first line begins with '.')
\* goes on the wire with one extra leading '.'.
C4_LeadingDotStuffed ==
    (encPhase # "idle" /\ pos >= 1 /\ body[1] = DOT) =>
        (Len(BodyWire) >= 2 /\ BodyWire[1] = DOT /\ BodyWire[2] = DOT)

\* C5: BodyEnd emits CR LF . CR LF, LF . CR LF or . CR LF for escape_count 0, 1
\* or 2, the body's wire bytes then end with CR LF . CR LF, and escape_count is 0.
C5_BodyEndCompletes ==
    encPhase = "ended" =>
        /\ endFrom \in {0, 1, 2}
        /\ SubSeq(wire, endAt + 1, Len(wire)) =
              (CASE endFrom = 0 -> <<CR, LF, DOT, CR, LF>>
                 [] endFrom = 1 -> <<LF, DOT, CR, LF>>
                 [] endFrom = 2 -> <<DOT, CR, LF>>)
        /\ Len(BodyWire) >= 5
        /\ Suffix(BodyWire, 5) = Terminator
        /\ escape_count = 0

\* C5 witness: a body ending in a lone CR, completed from escape_count 1.
C5_Witness ==
    /\ encPhase = "ended"
    /\ endFrom = 1
    /\ Len(body) >= 1
    /\ body[Len(body)] = CR

\* ------------------------------------------------------------ reply parser
\* A reply on the wire is a sequence of tokens, each a tuple of strings: the
\* three-digit code, the separator, the text of the line (its words), CR, LF.
CodeTok(c) == <<"code", c>>
SepMore == <<"-">>
SepLast == <<"SP">>
TextTok(line) == <<"text">> \o line
CRTok == <<"CR">>
LFTok == <<"LF">>

\* The reply codes the modelled servers use, and the hundreds digit of each.
Hundreds(code) ==
    CASE code \in {"220", "221", "235", "250"} -> 2
      [] code \in {"334", "354"} -> 3
      [] code \in {"451", "454"} -> 4
      [] code \in {"535", "550", "554"} -> 5

\* Severity, the classifier derived from the hundreds digit.
Severity(code) ==
    CASE Hundreds(code) = 1 -> "PositivePreliminary"
      [] Hundreds(code) = 2 -> "PositiveCompletion"
      [] Hundreds(code) = 3 -> "PositiveIntermediate"
      [] Hundreds(code) = 4 -> "TransientNegative"
      [] Hundreds(code) = 5 -> "PermanentNegative"

\* Severity::is_positive
IsPositive(code) ==
    Severity(code) \in {"PositivePreliminary", "PositiveCompletion", "PositiveIntermediate"}

\* The bytes of a reply [code, text]: text is its lines, each a tuple of words.
RECURSIVE LinesBytes(_, _, _)
LinesBytes(code, text, i) ==
    IF i > Len(text) THEN <<>>
    ELSE <<CodeTok(code), IF i < Len(text) THEN SepMore ELSE SepLast,
           TextTok(text[i]), CRTok, LFTok>> \o LinesBytes(code, text, i + 1)

ReplyBytes(reply) == LinesBytes(reply.code, reply.text, 1)

RECURSIVE RepliesBytes(_)
RepliesBytes(rs) ==
    IF rs = <<>> THEN <<>> ELSE ReplyBytes(Head(rs)) \o RepliesBytes(Tail(rs))

NoReply == [code |-> "", text |-> <<>>]

\* Whether token tok may stand at place j (0..4) of a reply line.
LineShape(j, tok) ==
    CASE j = 0 -> Len(tok) = 2 /\ tok[1] = "code"
      [] j = 1 -> tok \in {SepMore, SepLast}
      [] j = 2 -> Len(tok) >= 1 /\ tok[1] = "text"
      [] j = 3 -> tok = CRTok
      [] j = 4 -> tok = LFTok

\* Response::parse from token i on, with the code and lines read so far:
\* Done (with the tokens used), Incomplete or Error.
RECURSIVE ParseLines(_, _, _, _)
ParseLines(buf, i, code, text) ==
    LET avail == IF Len(buf) - i + 1 < 5 THEN Len(buf) - i + 1 ELSE 5
        bad == \E j \in 0..(avail - 1) : ~LineShape(j, buf[i + j])
    IN  IF bad THEN [kind |-> "Error", used |-> 0, reply |-> NoReply]
        ELSE IF avail < 5 THEN [kind |-> "Incomplete", used |-> 0, reply |-> NoReply]
        ELSE IF code # "" /\ buf[i][2] # code
             THEN [kind |-> "Error", used |-> 0, reply |-> NoReply]
        ELSE LET lines == Append(text, Tail(buf[i + 2]))
             IN  IF buf[i + 1] = SepLast
                 THEN [kind |-> "Done", used |-> i + 4,
                       reply |-> [code |-> buf[i][2], text |-> lines]]
                 ELSE ParseLines(buf, i + 5, buf[i][2], lines)

ParseReply(buf) == ParseLines(buf, 1, "", <<>>)

\* ----------------------------------------------------------------- decoder
\* ClientCodec::decode on the read buffer: the result (Some frame, None or Err)
\* and the buffer it leaves.
RECURSIVE DecodeKeepAll(_)
DecodeKeepAll(buf) ==
    LET p == ParseReply(buf)
    IN  CASE p.kind = "Done" ->
               [res |-> "Some", frame |-> p.reply,
                buf |-> SubSeq(buf, p.used + 1, Len(buf))]
          [] p.kind = "Incomplete" -> [res |-> "None", frame |-> NoReply, buf |-> buf]
          [] p.kind = "Error" -> [res |-> "Err", frame |-> NoReply, buf |-> buf]

\* decode returning after it dropped a 3xx reply, without parsing the rest.
DecodeNoRetry(buf) ==
    LET p == ParseReply(buf)
    IN  CASE p.kind = "Done" ->
               LET rest == SubSeq(buf, p.used + 1, Len(buf))
               IN  IF Severity(p.reply.code) = "PositiveIntermediate"
                   THEN [res |-> "None", frame |-> NoReply, buf |-> rest]
                   ELSE [res |-> "Some", frame |-> p.reply, buf |-> rest]
          [] p.kind = "Incomplete" -> [res |-> "None", frame |-> NoReply, buf |-> buf]
          [] p.kind = "Error" -> [res |-> "Err", frame |-> NoReply, buf |-> buf]

RECURSIVE Decode(_)
Decode(buf) ==
    LET p == ParseReply(buf)
    IN  CASE p.kind = "Done" ->
               LET bytes == p.used
                   rest == SubSeq(buf, bytes + 1, Len(buf))
               IN  IF Severity(p.reply.code) = "PositiveIntermediate"
                   THEN IF bytes # 0 THEN Decode(rest)
                        ELSE [res |-> "None", frame |-> NoReply, buf |-> buf]
                   ELSE [res |-> "Some", frame |-> p.reply, buf |-> rest]
          [] p.kind = "Incomplete" -> [res |-> "None", frame |-> NoReply, buf |-> buf]
          [] p.kind = "Error" -> [res |-> "Err", frame |-> NoReply, buf |-> buf]

\* The replies the decoder harness draws its input from.
DecReplies ==
    { [code |-> "250", text |-> <<<<"ok">>>>],
      [code |-> "250", text |-> <<<<"a">>, <<"STARTTLS">>>>],
      [code |-> "354", text |-> <<<<"go">>>>],
      [code |-> "550", text |-> <<<<"no">>>>] }

InBytes == RepliesBytes(inReplies)

\* Bytes from the peer reach the read buffer, in fragments of any size.
DecArrive ==
    /\ ~decErr
    /\ arrived < Len(InBytes)
    /\ rbuf' = Append(rbuf, InBytes[arrived + 1])
    /\ arrived' = arrived + 1
    /\ UNCHANGED <<fmtVars, escape_count, wire, encVars, inReplies, frames, decErr, sessVars>>

\* The framed transport calls decode on what it has buffered.
DecDecode ==
    /\ ~decErr
    /\ LET r == Decode(rbuf)
       IN  /\ rbuf' = r.buf
           /\ frames' = IF r.res = "Some" THEN Append(frames, r.frame) ELSE frames
           /\ decErr' = (r.res = "Err")
    /\ UNCHANGED <<fmtVars, escape_count, wire, encVars, inReplies, arrived, sessVars>>

InitDec ==
    /\ FmtIdle
    /\ escape_count = 0
    /\ wire = <<>>
    /\ EncIdle
    /\ rbuf = <<>>
    /\ inReplies \in SeqsUpTo(DecReplies, MaxReplies)
    /\ arrived = 0
    /\ frames = <<>>
    /\ decErr = FALSE
    /\ SessIdle

NextDec == DecArrive \/ DecDecode

SpecDec == InitDec /\ [][NextDec]_vars

\* ------------------------------------------------- decoder: the claims
RECURSIVE NonIntermediate(_)
NonIntermediate(rs) ==
    IF rs = <<>> THEN <<>>
    ELSE IF Severity(Head(rs).code) = "PositiveIntermediate"
         THEN NonIntermediate(Tail(rs))
         ELSE <<Head(rs)>> \o NonIntermediate(Tail(rs))

\* C6: no frame has severity PositiveIntermediate, and the frames emitted are
\* exactly the non-3xx replies among the replies consumed so far (all of them
\* once every byte has arrived and been consumed), in arrival order.
C6_NoIntermediateFrames ==
    /\ ~decErr
    /\ \A i \in 1..Len(frames) : Severity(frames[i].code) # "PositiveIntermediate"
    /\ \E k \in 0..Len(inReplies) :
          /\ Len(RepliesBytes(SubSeq(inReplies, 1, k))) = arrived - Len(rbuf)
          /\ frames = NonIntermediate(SubSeq(inReplies, 1, k))
    /\ (arrived = Len(InBytes) /\ rbuf = <<>>) => frames = NonIntermediate(inReplies)

\* C6 witness: a 354 followed by a terminal reply has yielded exactly one frame.
C6_Witness ==
    /\ inReplies = << [code |-> "354", text |-> <<<<"go">>>>],
                      [code |-> "250", text |-> <<<<"ok">>>>] >>
    /\ arrived = Len(InBytes)
    /\ rbuf = <<>>
    /\ frames = << [code |-> "250", text |-> <<<<"ok">>>>] >>

\* ---------------------------------------------------------------- requests
\* Display for Request, as tokens on the wire.
RenderEhlo == <<"EHLO ", "id", CR, LF>>
RenderStartTls == <<"STARTTLS", CR, LF>>
RenderMail == <<"MAIL FROM:", "<from>", CR, LF>>
RenderRcpt(i) == <<"RCPT TO:", "<rcpt" \o ToString(i) \o ">", CR, LF>>
RenderQuit == <<"QUIT", CR, LF>>
RenderAuthPlain == <<"AUTH", "PLAIN", "b64(user NUL user NUL pass)", CR, LF>>
RenderAuthLogin == <<"AUTH", "LOGIN", "b64(user)", CR, LF>>
RenderAuthCont == <<"b64(pass)", CR, LF>>

Render(req) ==
    CASE req.kind = "Mail" -> RenderMail
      [] req.kind = "Rcpt" -> RenderRcpt(req.arg)
      [] req.kind = "Data" -> RenderData
      [] req.kind = "Quit" -> RenderQuit

\* ------------------------------------------------------------------ server
\* A server that follows the protocol: a banner, then one reply per command.
Banners ==
    { [code |-> "220", text |-> <<<<"host", "ESMTP">>>>],
      [code |-> "220", text |-> <<<<"host", "ESMTP", "ready">>>>],
      [code |-> "220", text |-> <<<<"host">>>>],
      [code |-> "220", text |-> <<<<"ESMTP">>>>],
      [code |-> "220", text |-> <<<<"host", "SMTP", "ESMTP">>>>],
      [code |-> "220", text |-> <<<<"host">>, <<"host", "ESMTP">>>>],
      [code |-> "554", text |-> <<<<"host", "ESMTP">>>>] }

EhloReplies ==
    { [code |-> "250", text |-> <<<<"host">>>>],
      [code |-> "250", text |-> <<<<"host">>, <<"STARTTLS">>>>],
      [code |-> "250", text |-> <<<<"host">>, <<"STARTTLS", "X">>>>],
      [code |-> "250", text |-> <<<<"host">>, <<"STARTTLS">>, <<"AUTH", "PLAIN", "LOGIN">>>>],
      [code |-> "250", text |-> <<<<"host">>, <<"AUTH", "LOGIN", "PLAIN">>>>],
      [code |-> "250", text |-> <<<<"host">>, <<"AUTH", "LOGIN">>>>],
      [code |-> "250", text |-> <<<<"host">>, <<"AUTH", "CRAM-MD5">>>>],
      [code |-> "250", text |-> <<<<"host">>, <<"AUTH", "CRAM-MD5">>, <<"AUTH", "PLAIN">>>>],
      [code |-> "550", text |-> <<<<"no">>>>],
      [code |-> "451", text |-> <<<<"later">>>>] }

\* The k-th reply of the server carries k in its text.
Tagged(code, k) == [code |-> code, text |-> <<<<"re", ToString(k)>>>>]

RepliesTo(c, k) ==
    CASE c = "EHLO" -> EhloReplies
      [] c = "STARTTLS" -> {Tagged("220", k), Tagged("454", k)}
      [] c = "AUTH PLAIN" -> {Tagged("235", k), Tagged("535", k)}
      [] c = "AUTH LOGIN" -> {Tagged("334", k)}
      [] c = "AUTH CONT" -> {Tagged("235", k), Tagged("535", k)}
      [] c = "MAIL" -> {Tagged("250", k), Tagged("550", k)}
      [] c = "RCPT" -> {Tagged("250", k), Tagged("550", k)}
      [] c = "DATA" -> {Tagged("354", k), Tagged("554", k)}
      [] c = "END" -> IF srvData THEN {Tagged("250", k), Tagged("554", k)} ELSE {NoReply}
      [] c = "QUIT" -> {Tagged("221", k), Tagged("454", k)}

Running == pc \notin {"off", "failed", "done"}

ServerBanner ==
    /\ Running
    /\ ~srvBanner
    /\ ~srvClosed
    /\ security = "Immediate" => io = "Secure"
    /\ \E b \in Banners :
          /\ net' = net \o ReplyBytes(b)
          /\ srvSent' = Append(srvSent, b)
    /\ srvBanner' = TRUE
    /\ UNCHANGED <<fmtVars, escape_count, wire, encVars, decVars, paramVars, connVars, envVars,
                   cmds, srvReplied, srvClosed, srvTls, srvData>>

ServerReply ==
    /\ Running
    /\ srvBanner
    /\ ~srvClosed
    /\ srvReplied < Len(cmds)
    /\ LET c == cmds[srvReplied + 1]
       IN  \E r \in RepliesTo(c, srvReplied + 1) :
              /\ net' = net \o ReplyBytes(r)
              /\ srvSent' = Append(srvSent, r)
              /\ srvTls' = (srvTls \/ (c = "STARTTLS" /\ IsPositive(r.code)))
              /\ srvData' = IF c = "DATA" THEN r.code = "354" ELSE srvData
    /\ srvReplied' = srvReplied + 1
    /\ UNCHANGED <<fmtVars, escape_count, wire, encVars, decVars, paramVars, connVars, envVars,
                   cmds, srvBanner, srvClosed>>

ServerClose ==
    /\ Running
    /\ ~srvClosed
    /\ srvClosed' = TRUE
    /\ UNCHANGED <<fmtVars, escape_count, wire, encVars, decVars, paramVars, connVars, envVars,
                   net, cmds, srvReplied, srvBanner, srvSent, srvTls, srvData>>

\* ------------------------------------------------------- framed transport
\* Stream::poll of the framed transport: read what has arrived, then decode.
Avail == Decode(rbuf \o net)
FrameReady == Avail.res = "Some"

\* A transport whose stream never reports its end.
StreamEndedNever == FALSE

StreamEnded == Avail.res = "None" /\ srvClosed

\* --------------------------------------------------------------- handshake
\* The methods of the first capability line that starts with "AUTH ".
HasAuthLine(features) ==
    \E i \in 1..Len(features) : Len(features[i]) >= 2 /\ features[i][1] = "AUTH"

AuthMethods(features) ==
    LET i == CHOOSE j \in 1..Len(features) :
                 /\ Len(features[j]) >= 2 /\ features[j][1] = "AUTH"
                 /\ \A h \in 1..(j - 1) : ~(Len(features[h]) >= 2 /\ features[h][1] = "AUTH")
    IN  {features[i][m] : m \in 2..Len(features[i])}

\* What a step of the future chain leaves: the next position, connect's result,
\* and the frames it sent (their bytes, and the commands the server counts).
Step(p, res, bytes, sent) == [pc |-> p, res |-> res, wire |-> bytes, cmds |-> sent]

\* clientauth without its first check, on params.auth.
clientauth_unconditional(features) ==
    IF HasAuthLine(features)
    THEN IF "PLAIN" \in AuthMethods(features)
         THEN Step("auth_await", "pending", RenderAuthPlain, <<"AUTH PLAIN">>)
         ELSE IF "LOGIN" \in AuthMethods(features)
         THEN Step("auth_login_password", "pending", RenderAuthLogin, <<"AUTH LOGIN">>)
         ELSE Step("failed", "no supported auth methods found", <<>>, <<>>)
    ELSE Step("failed", "server does not support auth", <<>>, <<>>)

\* clientauth trying LOGIN before PLAIN.
clientauth_login_first(features) ==
    IF ~auth THEN Step("hs_returned", "pending", <<>>, <<>>)
    ELSE IF HasAuthLine(features)
    THEN IF "LOGIN" \in AuthMethods(features)
         THEN Step("auth_login_password", "pending", RenderAuthLogin, <<"AUTH LOGIN">>)
         ELSE IF "PLAIN" \in AuthMethods(features)
         THEN Step("auth_await", "pending", RenderAuthPlain, <<"AUTH PLAIN">>)
         ELSE Step("failed", "no supported auth methods found", <<>>, <<>>)
    ELSE Step("failed", "server does not support auth", <<>>, <<>>)

\* clientauth: what it sends first, or how it fails.
clientauth(features) ==
    IF ~auth THEN Step("hs_returned", "pending", <<>>, <<>>)
    ELSE IF HasAuthLine(features)
    THEN IF "PLAIN" \in AuthMethods(features)
         THEN Step("auth_await", "pending", RenderAuthPlain, <<"AUTH PLAIN">>)
         ELSE IF "LOGIN" \in AuthMethods(features)
         THEN Step("auth_login_password", "pending", RenderAuthLogin, <<"AUTH LOGIN">>)
         ELSE Step("failed", "no supported auth methods found", <<>>, <<>>)
    ELSE Step("failed", "server does not support auth", <<>>, <<>>)

\* The arguments of the first handshake: (true, true) in connect_plain and
\* connect_immediate_tls, (true, false) in connect_starttls.
first_handshake_auth == [await_opening |-> TRUE, do_auth |-> TRUE]

first_handshake ==
    [await_opening |-> TRUE, do_auth |-> security \in {"None", "Immediate"}]

\* ClientProto::connect: the dispatch on params.security.
Connect ==
    /\ pc = "start"
    /\ pc' = IF security = "Immediate" THEN "tls_immediate" ELSE "hs_send_ehlo"
    /\ await_opening' = first_handshake.await_opening
    /\ do_auth' = first_handshake.do_auth
    /\ UNCHANGED <<fmtVars, escape_count, wire, encVars, decVars, paramVars, srvVars, envVars,
                   io, ehlo_response, tlsUpgrades, connResult>>

\* connect_immediate_tls: connect_async on the raw stream, then the handshake.
TlsImmediate ==
    /\ pc = "tls_immediate"
    /\ tlsUpgrades' = tlsUpgrades + 1
    /\ \E ok \in {TRUE, FALSE} :
          /\ ok => ~srvClosed
          /\ io' = IF ok THEN "Secure" ELSE io
          /\ pc' = IF ok THEN "hs_send_ehlo" ELSE "failed"
          /\ connResult' = IF ok THEN connResult ELSE "tls error"
    /\ UNCHANGED <<fmtVars, escape_count, wire, encVars, decVars, paramVars, srvVars, envVars,
                   await_opening, do_auth, ehlo_response>>

\* handshake: io.framed(ClientCodec::new()).send(Request::Ehlo)
HsSendEhlo ==
    /\ pc = "hs_send_ehlo"
    /\ escape_count' = 0
    /\ rbuf' = <<>>
    /\ wire' = wire \o RenderEhlo
    /\ cmds' = Append(cmds, "EHLO")
    /\ ehlo_response' = NoReply
    /\ pc' = IF await_opening THEN "hs_await_opening" ELSE "hs_await_ehlo"
    /\ UNCHANGED <<fmtVars, encVars, inReplies, arrived, frames, decErr, paramVars, envVars,
                   io, await_opening, do_auth, tlsUpgrades, connResult,
                   net, srvReplied, srvBanner, srvClosed, srvSent, srvTls, srvData>>

\* handshake: whether the opening response names ESMTP.
esmtp_any_token(response) ==
    /\ Len(response.text) >= 1
    /\ \E w \in 1..Len(response.text[1]) : response.text[1][w] = "ESMTP"

esmtp(response) ==
    /\ Len(response.text) >= 1
    /\ Len(response.text[1]) >= 2
    /\ response.text[1][2] = "ESMTP"

\* handshake: receive the server opening.
HsOpening ==
    /\ pc = "hs_await_opening"
    /\ FrameReady \/ StreamEnded
    /\ LET response == Avail.frame
           out == IF ~FrameReady
                  THEN Step("failed", "connection closed before handshake", <<>>, <<>>)
                  ELSE IF ~IsPositive(response.code) \/ ~esmtp(response)
                  THEN Step("failed", "invalid handshake", <<>>, <<>>)
                  ELSE Step("hs_await_ehlo", "pending", <<>>, <<>>)
       IN  /\ pc' = out.pc
           /\ connResult' = out.res
    /\ rbuf' = Avail.buf
    /\ net' = <<>>
    /\ UNCHANGED <<fmtVars, escape_count, wire, encVars, inReplies, arrived, frames, decErr,
                   paramVars, envVars, io, await_opening, do_auth, ehlo_response,
                   tlsUpgrades, cmds, srvReplied, srvBanner, srvClosed, srvSent, srvTls, srvData>>

\* A handshake that fails on an EHLO reply of negative severity.
HsEhloReplyChecked ==
    /\ pc = "hs_await_ehlo"
    /\ FrameReady \/ StreamEnded
    /\ LET response == Avail.frame
           out == IF ~FrameReady
                  THEN Step("failed", "connection closed during handshake", <<>>, <<>>)
                  ELSE IF ~IsPositive(response.code)
                  THEN Step("failed", "ehlo rejected", <<>>, <<>>)
                  ELSE IF do_auth THEN clientauth(response.text)
                  ELSE Step("hs_returned", "pending", <<>>, <<>>)
       IN  /\ pc' = out.pc
           /\ connResult' = out.res
           /\ wire' = wire \o out.wire
           /\ cmds' = cmds \o out.cmds
           /\ ehlo_response' = response
    /\ rbuf' = Avail.buf
    /\ net' = <<>>
    /\ UNCHANGED <<fmtVars, escape_count, encVars, inReplies, arrived, frames, decErr,
                   paramVars, envVars, io, await_opening, do_auth,
                   tlsUpgrades, srvReplied, srvBanner, srvClosed, srvSent, srvTls, srvData>>

\* handshake: receive the EHLO response, then clientauth if do_auth.
HsEhloReply ==
    /\ pc = "hs_await_ehlo"
    /\ FrameReady \/ StreamEnded
    /\ LET response == Avail.frame
           out == IF ~FrameReady
                  THEN Step("failed", "connection closed during handshake", <<>>, <<>>)
                  ELSE IF do_auth THEN clientauth(response.text)
                  ELSE Step("hs_returned", "pending", <<>>, <<>>)
       IN  /\ pc' = out.pc
           /\ connResult' = out.res
           /\ wire' = wire \o out.wire
           /\ cmds' = cmds \o out.cmds
           /\ ehlo_response' = response
    /\ rbuf' = Avail.buf
    /\ net' = <<>>
    /\ UNCHANGED <<fmtVars, escape_count, encVars, inReplies, arrived, frames, decErr,
                   paramVars, envVars, io, await_opening, do_auth,
                   tlsUpgrades, srvReplied, srvBanner, srvClosed, srvSent, srvTls, srvData>>

\* clientauth (LOGIN) going on to the read without the second send.
AuthLoginPasswordOmitted ==
    /\ pc = "auth_login_password"
    /\ pc' = "auth_await"
    /\ UNCHANGED <<fmtVars, escape_count, wire, encVars, decVars, paramVars, envVars,
                   io, await_opening, do_auth, ehlo_response, tlsUpgrades, connResult,
                   srvVars>>

\* clientauth (LOGIN): the second send, the password.
AuthLoginPassword ==
    /\ pc = "auth_login_password"
    /\ wire' = wire \o RenderAuthCont
    /\ cmds' = Append(cmds, "AUTH CONT")
    /\ pc' = "auth_await"
    /\ UNCHANGED <<fmtVars, escape_count, encVars, decVars, paramVars, envVars,
                   io, await_opening, do_auth, ehlo_response, tlsUpgrades, connResult,
                   net, srvReplied, srvBanner, srvClosed, srvSent, srvTls, srvData>>

\* handshake: the response returned with the stream after clientauth.
handshake_item_auth(ehlo, authreply) == authreply

handshake_item(ehlo, authreply) == ehlo

\* clientauth: the check of the auth status.
auth_failed_never(response) == FALSE

auth_failed(response) == ~IsPositive(response.code)

\* clientauth: await the auth response and check its status.
AuthReply ==
    /\ pc = "auth_await"
    /\ FrameReady \/ StreamEnded
    /\ LET response == Avail.frame
           out == IF ~FrameReady
                  THEN Step("failed", "connection closed during auth", <<>>, <<>>)
                  ELSE IF auth_failed(response)
                  THEN Step("failed", "authentication failed", <<>>, <<>>)
                  ELSE Step("hs_returned", "pending", <<>>, <<>>)
       IN  /\ pc' = out.pc
           /\ connResult' = out.res
           /\ ehlo_response' = handshake_item(ehlo_response, response)
    /\ rbuf' = Avail.buf
    /\ net' = <<>>
    /\ UNCHANGED <<fmtVars, escape_count, wire, encVars, inReplies, arrived, frames, decErr,
                   paramVars, envVars, io, await_opening, do_auth,
                   tlsUpgrades, cmds, srvReplied, srvBanner, srvClosed, srvSent, srvTls, srvData>>

\* connect_starttls: whether the EHLO response offers STARTTLS.
is_supported_prefix(text) ==
    \E i \in 1..Len(text) : Len(text[i]) >= 1 /\ text[i][1] = "STARTTLS"

is_supported(text) == \E i \in 1..Len(text) : text[i] = <<"STARTTLS">>

\* The decision without the is_required test: a server without STARTTLS is
\* used as it is in both modes.
starttls_decide_lenient(text) ==
    IF ~is_supported(text)
    THEN Step("connected", "ok", <<>>, <<>>)
    ELSE Step("starttls_await", "pending", RenderStartTls, <<"STARTTLS">>)

\* connect_starttls: the closure run on the first handshake's result.
starttls_decide(text) ==
    IF ~is_supported(text)
    THEN IF security = "Required"
         THEN Step("failed", "server doesn't support starttls", <<>>, <<>>)
         ELSE Step("connected", "ok", <<>>, <<>>)
    ELSE Step("starttls_await", "pending", RenderStartTls, <<"STARTTLS">>)

\* What follows a handshake: connect_starttls goes on to STARTTLS after its first
\* one; every other handshake's stream is connect's result.
after_handshake_again(text) ==
    IF security \in {"Optional", "Required"}
    THEN starttls_decide(text)
    ELSE Step("connected", "ok", <<>>, <<>>)

after_handshake(text) ==
    IF security \in {"Optional", "Required"} /\ ~do_auth
    THEN starttls_decide(text)
    ELSE Step("connected", "ok", <<>>, <<>>)

\* The handshake future has resolved: its caller's continuation runs.
HsReturned ==
    /\ pc = "hs_returned"
    /\ LET out == after_handshake(ehlo_response.text)
       IN  /\ pc' = out.pc
           /\ connResult' = out.res
           /\ wire' = wire \o out.wire
           /\ cmds' = cmds \o out.cmds
           /\ ehlo_response' = IF out.pc = "connected" THEN NoReply ELSE ehlo_response
    /\ UNCHANGED <<fmtVars, escape_count, encVars, decVars, paramVars, envVars,
                   io, await_opening, do_auth, tlsUpgrades,
                   net, srvReplied, srvBanner, srvClosed, srvSent, srvTls, srvData>>

\* connect_starttls: the error for a stream that ended before the response.
closed_as_during_handshake == "connection closed during handshake"

closed_before_starttls == "connection closed before starttls"

\* connect_starttls: whether the STARTTLS response ends connect.
handle_rejection_ignored(response) == FALSE

handle_rejection(response) == ~IsPositive(response.code) /\ security = "Required"

\* connect_starttls going on to the upgrade without receiving the response.
StartTlsReplyNotAwaited ==
    /\ pc = "starttls_await"
    /\ pc' = "tls_upgrade"
    /\ UNCHANGED <<fmtVars, escape_count, wire, encVars, decVars, paramVars, envVars,
                   io, await_opening, do_auth, ehlo_response, tlsUpgrades, connResult,
                   srvVars>>

\* connect_starttls: receive the STARTTLS response, handle rejection.
StartTlsReply ==
    /\ pc = "starttls_await"
    /\ FrameReady \/ StreamEnded
    /\ LET response == Avail.frame
           out == IF ~FrameReady
                  THEN Step("failed", closed_before_starttls, <<>>, <<>>)
                  ELSE IF handle_rejection(response)
                  THEN Step("failed", "starttls rejected", <<>>, <<>>)
                  ELSE Step("tls_upgrade", "pending", <<>>, <<>>)
       IN  /\ pc' = out.pc
           /\ connResult' = out.res
    /\ rbuf' = Avail.buf
    /\ net' = <<>>
    /\ UNCHANGED <<fmtVars, escape_count, wire, encVars, inReplies, arrived, frames, decErr,
                   paramVars, envVars, io, await_opening, do_auth, ehlo_response,
                   tlsUpgrades, cmds, srvReplied, srvBanner, srvClosed, srvSent, srvTls, srvData>>

\* connect_starttls: the arguments of the handshake after the upgrade.
second_handshake_awaits == [await_opening |-> TRUE, do_auth |-> TRUE]

second_handshake == [await_opening |-> FALSE, do_auth |-> TRUE]

\* connect_starttls: stream.into_inner().unwrap_plain(), connect_async, and on
\* success the second handshake(ClientIo::Secure(io), params, false, true).
TlsUpgrade ==
    /\ pc = "tls_upgrade"
    /\ rbuf' = <<>>
    /\ IF io # "Plain"
       THEN /\ pc' = "panic"
            /\ UNCHANGED <<io, tlsUpgrades, connResult, await_opening, do_auth>>
       ELSE /\ tlsUpgrades' = tlsUpgrades + 1
            /\ \E ok \in {TRUE, FALSE} :
                  /\ ok => (srvTls /\ ~srvClosed)
                  /\ io' = IF ok THEN "Secure" ELSE io
                  /\ pc' = IF ok THEN "hs_send_ehlo" ELSE "failed"
                  /\ connResult' = IF ok THEN connResult ELSE "tls error"
                  /\ await_opening' = IF ok THEN second_handshake.await_opening ELSE await_opening
                  /\ do_auth' = IF ok THEN second_handshake.do_auth ELSE do_auth
    /\ UNCHANGED <<fmtVars, escape_count, wire, encVars, inReplies, arrived, frames, decErr,
                   paramVars, srvVars, envVars, ehlo_response>>

\* ---------------------------------------------------------------- sendmail
\* The calls sendmail makes on the service, in order (reqs).
reqs_quit_first(n) ==
    <<[kind |-> "Mail", arg |-> 0]>>
        \o [i \in 1..n |-> [kind |-> "Rcpt", arg |-> i]]
        \o <<[kind |-> "Quit", arg |-> 0], [kind |-> "Data", arg |-> 0]>>

reqs(n) ==
    <<[kind |-> "Mail", arg |-> 0]>>
        \o [i \in 1..n |-> [kind |-> "Rcpt", arg |-> i]]
        \o <<[kind |-> "Data", arg |-> 0], [kind |-> "Quit", arg |-> 0]>>

CmdName(req) ==
    CASE req.kind = "Mail" -> "MAIL"
      [] req.kind = "Rcpt" -> "RCPT"
      [] req.kind = "Data" -> "DATA"
      [] req.kind = "Quit" -> "QUIT"

\* Message::WithBody or Message::WithoutBody
HasBody(req) == req.kind = "Data"

\* sendmail: the closure run once the client future has resolved to a service.
SendmailSubmit ==
    /\ pc = "connected"
    /\ connResult = "ok"
    /\ responses' = [i \in 1..Len(reqs(nrcpt)) |-> NoReply]
    /\ nextReq' = 1
    /\ in_flight' = <<>>
    /\ envStart' = Len(wire)
    /\ pc' = "envelope"
    /\ UNCHANGED <<fmtVars, escape_count, wire, encVars, decVars, paramVars, srvVars,
                   io, await_opening, do_auth, ehlo_response, tlsUpgrades, connResult,
                   out_body, result>>

\* A pipeline that writes the next request only while every response so far is
\* positive.
PipelineWriteChecked ==
    /\ pc = "envelope"
    /\ ~out_body
    /\ nextReq <= Len(reqs(nrcpt))
    /\ \A i \in 1..Len(responses) :
          IF responses[i] = NoReply THEN TRUE ELSE IsPositive(responses[i].code)
    /\ LET req == reqs(nrcpt)[nextReq]
       IN  /\ wire' = wire \o Render(req)
           /\ cmds' = Append(cmds, CmdName(req))
           /\ out_body' = HasBody(req)
    /\ in_flight' = Append(in_flight, nextReq)
    /\ nextReq' = nextReq + 1
    /\ UNCHANGED <<fmtVars, escape_count, encVars, decVars, paramVars, connVars,
                   net, srvReplied, srvBanner, srvClosed, srvSent, srvTls, srvData,
                   responses, result, envStart>>

\* The pipeline writes the next request, unless a body is still being streamed.
PipelineWrite ==
    /\ pc = "envelope"
    /\ ~out_body
    /\ nextReq <= Len(reqs(nrcpt))
    /\ LET req == reqs(nrcpt)[nextReq]
       IN  /\ wire' = wire \o Render(req)
           /\ cmds' = Append(cmds, CmdName(req))
           /\ out_body' = HasBody(req)
    /\ in_flight' = Append(in_flight, nextReq)
    /\ nextReq' = nextReq + 1
    /\ UNCHANGED <<fmtVars, escape_count, encVars, decVars, paramVars, connVars,
                   net, srvReplied, srvBanner, srvClosed, srvSent, srvTls, srvData,
                   responses, result, envStart>>

\* The pipeline writes the next chunk of the body stream.
PipelineWriteChunk ==
    /\ pc = "envelope"
    /\ out_body
    /\ pos < Len(body)
    /\ \E k \in 1..(Len(body) - pos) :
          LET r == EncodeChunk(escape_count, SubSeq(body, pos + 1, pos + k))
          IN  /\ wire' = wire \o r.buf
              /\ escape_count' = r.escape_count
              /\ pos' = pos + k
              /\ emitted' = emitted \o r.buf
    /\ UNCHANGED <<fmtVars, body, encPhase, bodyStart, cuts, endFrom, endAt, decVars,
                   paramVars, connVars, srvVars, envVars>>

\* The body stream has ended: the pipeline writes Frame::Body { chunk: None }.
PipelineWriteBodyEnd ==
    /\ pc = "envelope"
    /\ out_body
    /\ pos = Len(body)
    /\ wire' = wire \o BodyEndBytes(escape_count)
    /\ escape_count' = 0
    /\ cmds' = Append(cmds, "END")
    /\ out_body' = FALSE
    /\ UNCHANGED <<fmtVars, encVars, decVars, paramVars, connVars,
                   net, srvReplied, srvBanner, srvClosed, srvSent, srvTls, srvData,
                   nextReq, in_flight, responses, result, envStart>>

\* Which in-flight request a decoded response completes: the oldest.
dispatch_newest(q) == q[Len(q)]

dispatch(q) == Head(q)

Remove(q, x) == SelectSeq(q, LAMBDA y : y # x)

\* The pipeline reads a response frame and completes a pending call with it.
PipelineRead ==
    /\ pc = "envelope"
    /\ FrameReady
    /\ rbuf' = Avail.buf
    /\ net' = <<>>
    /\ frames' = Append(frames, Avail.frame)
    /\ IF in_flight = <<>>
       THEN /\ result' = [kind |-> "Io", code |-> "request / response mismatch"]
            /\ pc' = "done"
            /\ UNCHANGED <<in_flight, responses>>
       ELSE /\ responses' = [responses EXCEPT ![dispatch(in_flight)] = Avail.frame]
            /\ in_flight' = Remove(in_flight, dispatch(in_flight))
            /\ UNCHANGED <<result, pc>>
    /\ UNCHANGED <<fmtVars, escape_count, wire, encVars, inReplies, arrived, decErr, paramVars,
                   io, await_opening, do_auth, ehlo_response, tlsUpgrades, connResult,
                   cmds, srvReplied, srvBanner, srvClosed, srvSent, srvTls, srvData,
                   nextReq, out_body, envStart>>

\* The connection ended while calls were pending: they fail, and so does join_all.
PipelineClosed ==
    /\ pc = "envelope"
    /\ StreamEnded
    /\ \E i \in 1..Len(responses) : responses[i] = NoReply
    /\ result' = [kind |-> "Io", code |-> "connection closed"]
    /\ pc' = "done"
    /\ UNCHANGED <<fmtVars, escape_count, wire, encVars, decVars, paramVars, srvVars,
                   io, await_opening, do_auth, ehlo_response, tlsUpgrades, connResult,
                   nextReq, in_flight, responses, out_body, envStart>>

\* sendmail: the loop over the responses join_all hands over.
RECURSIVE check_last(_, _)
check_last(rs, i) ==
    IF i = 0 THEN [kind |-> "ok", code |-> ""]
    ELSE IF ~IsPositive(rs[i].code)
         THEN [kind |-> "BadSmtpResponse", code |-> rs[i].code]
         ELSE check_last(rs, i - 1)

RECURSIVE check_from(_, _)
check_from(rs, i) ==
    IF i > Len(rs) THEN [kind |-> "ok", code |-> ""]
    ELSE IF ~IsPositive(rs[i].code)
         THEN [kind |-> "BadSmtpResponse", code |-> rs[i].code]
         ELSE check_from(rs, i + 1)

check_responses_last(rs) == check_last(rs, Len(rs))

check_responses(rs) == check_from(rs, 1)

\* Every call has its response: join_all resolves and sendmail checks them.
SendmailResolve ==
    /\ pc = "envelope"
    /\ \A i \in 1..Len(responses) : responses[i] # NoReply
    /\ result' = check_responses(responses)
    /\ pc' = "done"
    /\ UNCHANGED <<fmtVars, escape_count, wire, encVars, decVars, paramVars, srvVars,
                   io, await_opening, do_auth, ehlo_response, tlsUpgrades, connResult,
                   nextReq, in_flight, responses, out_body, envStart>>

\* ------------------------------------------------------------- the session
\* connect, up to the moment sendmail's closure gets the service.
Init ==
    /\ FmtIdle
    /\ escape_count = 0
    /\ wire = <<>>
    /\ EncIdle
    /\ DecIdle
    /\ security \in {"None", "Optional", "Required", "Immediate"}
    /\ auth \in {TRUE, FALSE}
    /\ nrcpt \in 0..MaxRcpt
    /\ io = "Plain"
    /\ pc = "start"
    /\ await_opening = FALSE
    /\ do_auth = FALSE
    /\ ehlo_response = NoReply
    /\ tlsUpgrades = 0
    /\ connResult = "pending"
    /\ net = <<>>
    /\ cmds = <<>>
    /\ srvReplied = 0
    /\ srvBanner = FALSE
    /\ srvClosed = FALSE
    /\ srvSent = <<>>
    /\ srvTls = FALSE
    /\ srvData = FALSE
    /\ nextReq = 1
    /\ in_flight = <<>>
    /\ responses = <<>>
    /\ out_body = FALSE
    /\ result = [kind |-> "pending", code |-> ""]
    /\ envStart = 0

Next ==
    \/ Connect
    \/ TlsImmediate
    \/ HsSendEhlo
    \/ HsOpening
    \/ HsEhloReply
    \/ AuthLoginPassword
    \/ AuthReply
    \/ HsReturned
    \/ StartTlsReply
    \/ TlsUpgrade
    \/ SendmailSubmit
    \/ ServerBanner
    \/ ServerReply
    \/ ServerClose

Spec == Init /\ [][Next]_vars

\* sendmail on a service that connect has just resolved to: the handshake has
\* only encoded Message frames (escape_count is 0), every reply of it has been
\* read, and wire counts the bytes written from here on.
SessionBodies == {<<>>, <<"X">>, <<DOT, CR>>, <<CR, LF, DOT>>}

InitSend ==
    /\ FmtIdle
    /\ escape_count = 0
    /\ wire = <<>>
    /\ body \in SessionBodies
    /\ pos = 0
    /\ encPhase = "off"
    /\ bodyStart = 0
    /\ cuts = {}
    /\ endFrom = -1
    /\ endAt = 0
    /\ emitted = <<>>
    /\ DecIdle
    /\ \E s \in {"None", "Required"} :
          /\ security = s
          /\ io = IF s = "None" THEN "Plain" ELSE "Secure"
          /\ tlsUpgrades = IF s = "None" THEN 0 ELSE 1
          /\ srvTls = (s # "None")
    /\ auth = FALSE
    /\ nrcpt \in 0..MaxRcpt
    /\ pc = "connected"
    /\ await_opening = FALSE
    /\ do_auth = TRUE
    /\ ehlo_response = NoReply
    /\ connResult = "ok"
    /\ net = <<>>
    /\ cmds = <<>>
    /\ srvReplied = 0
    /\ srvBanner = TRUE
    /\ srvClosed = FALSE
    /\ srvSent = << [code |-> "220", text |-> <<<<"host", "ESMTP">>>>] >>
    /\ srvData = FALSE
    /\ nextReq = 1
    /\ in_flight = <<>>
    /\ responses = <<>>
    /\ out_body = FALSE
    /\ result = [kind |-> "pending", code |-> ""]
    /\ envStart = 0

NextSend ==
    \/ SendmailSubmit
    \/ PipelineWrite
    \/ PipelineWriteChunk
    \/ PipelineWriteBodyEnd
    \/ PipelineRead
    \/ PipelineClosed
    \/ SendmailResolve
    \/ ServerReply
    \/ ServerClose

SpecSend == InitSend /\ [][NextSend]_vars

\* ------------------------------------------------ sendmail: the claims
EnvWire == SubSeq(wire, envStart + 1, Len(wire))

AllWritten == nextReq > Len(reqs(nrcpt)) /\ ~out_body

AllResponded == \A i \in 1..Len(responses) : responses[i] # NoReply

\* C7: the k-th frame the decoder produced is the response delivered to the k-th
\* call, and no later call has a response yet, however replies and writes
\* interleave; with a 354 dropped, the response slotted against DATA is the
\* reply the server sent after end-of-data.
C7_FifoResponses ==
    pc \in {"envelope", "done"} =>
        /\ Len(frames) <= Len(responses)
        /\ \A k \in 1..Len(responses) :
              responses[k] = IF k <= Len(frames) THEN frames[k] ELSE NoReply
        /\ \A k \in 1..Len(responses) :
              (responses[k] # NoReply /\ k <= nrcpt + 1) =>
                  responses[k].text = <<<<"re", ToString(k)>>>>
        /\ (srvData /\ responses[nrcpt + 2] # NoReply) =>
              responses[nrcpt + 2].text = <<<<"re", ToString(nrcpt + 3)>>>>

\* C7 witness: MAIL, both RCPTs, DATA with its body and QUIT are all written and
\* answered by the server before the client has read a single reply.
C7_Witness ==
    /\ pc = "envelope"
    /\ nrcpt = 2
    /\ AllWritten
    /\ srvReplied = Len(cmds)
    /\ srvData
    /\ frames = <<>>
    /\ net # <<>>

RECURSIVE RenderRcpts(_, _)
RenderRcpts(i, n) == IF i > n THEN <<>> ELSE RenderRcpt(i) \o RenderRcpts(i + 1, n)

\* What the whole envelope puts on the wire.
EnvelopeWire ==
    RenderMail \o RenderRcpts(1, nrcpt) \o RenderData \o OneChunkWire(body) \o RenderQuit

\* C9: at every moment the bytes written are a prefix of MAIL FROM, RCPT TO
\* 1..n, DATA, the body chunks in order, the terminator, QUIT; and all of it
\* once everything is written.
C9_WireOrder ==
    pc \in {"envelope", "done"} =>
        /\ Len(EnvWire) <= Len(EnvelopeWire)
        /\ EnvWire = SubSeq(EnvelopeWire, 1, Len(EnvWire))
        /\ AllWritten => EnvWire = EnvelopeWire

\* C9 witness: two recipients and a three-byte body, all on the wire.
C9_Witness ==
    /\ nrcpt = 2
    /\ body = <<CR, LF, DOT>>
    /\ AllWritten
    /\ EnvWire = <<"MAIL FROM:", "<from>", CR, LF,
                   "RCPT TO:", "<rcpt1>", CR, LF,
                   "RCPT TO:", "<rcpt2>", CR, LF,
                   "DATA", CR, LF,
                   CR, LF, DOT, DOT, CR, LF, DOT, CR, LF,
                   "QUIT", CR, LF>>

\* ------------------------------------------------- connect: the claims
\* C10: with security Required, once the EHLO reply of the first handshake is
\* in and has no line equal to STARTTLS, connect fails with "server doesn't
\* support starttls" and the wire holds the EHLO and nothing else.
C10_RequiredWithoutStartTls ==
    ( /\ security = "Required"
      /\ ~do_auth
      /\ ehlo_response # NoReply
      /\ ~\E i \in 1..Len(ehlo_response.text) : ehlo_response.text[i] = <<"STARTTLS">> )
    => /\ wire = RenderEhlo
       /\ cmds = <<"EHLO">>
       /\ tlsUpgrades = 0
       /\ \/ pc = "hs_returned"
          \/ pc = "failed" /\ connResult = "server doesn't support starttls"

\* C10 witness: the server offers AUTH and a line that only begins with
\* STARTTLS; connect has failed after the EHLO alone.
C10_Witness ==
    /\ security = "Required"
    /\ auth
    /\ pc = "failed"
    /\ connResult = "server doesn't support starttls"
    /\ ehlo_response.text = <<<<"host">>, <<"STARTTLS", "X">>>>
    /\ wire = RenderEhlo

\* The first position in cmds of command c, whether the server has answered it,
\* and the reply the server sent to it (srvSent starts with the banner).
IndexOf(c) ==
    CHOOSE k \in 1..Len(cmds) : cmds[k] = c /\ \A h \in 1..(k - 1) : cmds[h] # c

Answered(c) == \E k \in 1..Len(cmds) : cmds[k] = c /\ k + 1 <= Len(srvSent)

SentTo(c) == srvSent[IndexOf(c) + 1]

StartTlsRefused == Answered("STARTTLS") /\ ~IsPositive(SentTo("STARTTLS").code)

\* C11: with security Required, once the server has answered STARTTLS with a
\* non-positive reply, the TLS upgrade is never started and, as soon as the
\* client has read that reply, connect has failed with "starttls rejected".
C11_RequiredRejected ==
    (security = "Required" /\ StartTlsRefused) =>
        /\ tlsUpgrades = 0
        /\ io = "Plain"
        /\ \/ pc = "starttls_await"
           \/ pc = "failed" /\ connResult = "starttls rejected"

\* C11 witness: the server answered STARTTLS with 454 and connect has failed.
C11_Witness ==
    /\ security = "Required"
    /\ Answered("STARTTLS")
    /\ SentTo("STARTTLS").code = "454"
    /\ pc = "failed"
    /\ connResult = "starttls rejected"
    /\ tlsUpgrades = 0

\* C12: with security Optional, once the server has answered STARTTLS with a
\* non-positive reply, the TLS upgrade is not started and the transport stays
\* Plain.
C12_OptionalRejectedStaysPlain ==
    (security = "Optional" /\ StartTlsRefused) =>
        /\ tlsUpgrades = 0
        /\ io = "Plain"

\* C13: whenever params.auth is set and connect has succeeded, in every
\* security mode, an AUTH exchange was completed: the command that ends it was
\* sent and the server answered it positively.
C13_AuthBeforeEnvelope ==
    (auth /\ pc \in {"connected", "envelope"}) =>
        \E k \in 1..Len(cmds) :
            /\ cmds[k] \in {"AUTH PLAIN", "AUTH CONT"}
            /\ k + 1 <= Len(srvSent)
            /\ IsPositive(srvSent[k + 1].code)

AuthCommands == {"AUTH PLAIN", "AUTH LOGIN", "AUTH CONT"}

AuthSent == SelectSeq(cmds, LAMBDA c : c \in AuthCommands)

AuthErrors ==
    { "server does not support auth", "no supported auth methods found",
      "connection closed during auth", "authentication failed" }

\* C14: when params.auth is unset, no AUTH frame is ever written, whatever the
\* server advertises and whatever the security mode, and connect never ends
\* with one of the authentication errors.
C14_NoAuthWhenUnset ==
    ~auth =>
        /\ AuthSent = <<>>
        /\ \A i \in 1..Len(wire) : wire[i] \notin {"AUTH", "b64(pass)"}
        /\ connResult \notin AuthErrors
        /\ pc \notin {"auth_login_password", "auth_await"}

\* C14 witness: a handshake with do_auth has returned, the server advertised
\* AUTH LOGIN PLAIN, params.auth is unset.
C14_Witness ==
    /\ ~auth
    /\ do_auth
    /\ pc = "hs_returned"
    /\ ehlo_response.text = <<<<"host">>, <<"AUTH", "LOGIN", "PLAIN">>>>

\* A capability line that begins with "AUTH ".
IsAuthLine(line) == Len(line) >= 2 /\ line[1] = "AUTH"

\* What C15 asks of a handshake whose first AUTH line offers the methods ms.
MechanismFor(ms) ==
    IF "PLAIN" \in ms
    THEN /\ AuthSent = <<"AUTH PLAIN">>
         /\ pc \in {"auth_await", "hs_returned", "failed"}
         /\ connResult \in {"pending", "connection closed during auth", "authentication failed"}
    ELSE IF "LOGIN" \in ms
    THEN /\ \/ pc = "auth_login_password" /\ AuthSent = <<"AUTH LOGIN">>
            \/ /\ pc \in {"auth_await", "hs_returned", "failed"}
               /\ AuthSent = <<"AUTH LOGIN", "AUTH CONT">>
         /\ connResult \in {"pending", "connection closed during auth", "authentication failed"}
    ELSE /\ pc = "failed"
         /\ connResult = "no supported auth methods found"
         /\ AuthSent = <<>>

\* C15: with auth set and do_auth true, once the handshake has read the reply
\* to its EHLO, the mechanism follows the first line beginning with "AUTH ":
\* PLAIN if it lists PLAIN, else LOGIN if it lists LOGIN, else failure "no
\* supported auth methods found"; with no such line, failure "server does not
\* support auth"; in both failures no AUTH frame was sent.
C15_MechanismChoice ==
    (auth /\ do_auth /\ pc # "hs_send_ehlo" /\ ehlo_response # NoReply) =>
        LET text == ehlo_response.text
        IN  IF \E i \in 1..Len(text) : IsAuthLine(text[i])
            THEN \E i \in 1..Len(text) :
                    /\ IsAuthLine(text[i])
                    /\ \A h \in 1..(i - 1) : ~IsAuthLine(text[h])
                    /\ MechanismFor({text[i][m] : m \in 2..Len(text[i])})
            ELSE /\ pc = "failed"
                 /\ connResult = "server does not support auth"
                 /\ AuthSent = <<>>

\* C15 witness: the server lists LOGIN before PLAIN and the client sent AUTH
\* PLAIN.
C15_Witness ==
    /\ auth
    /\ do_auth
    /\ ehlo_response.text = <<<<"host">>, <<"AUTH", "LOGIN", "PLAIN">>>>
    /\ AuthSent = <<"AUTH PLAIN">>
    /\ pc = "auth_await"

\* The last n bytes written.
WireTail(n) == SubSeq(wire, Len(wire) - n + 1, Len(wire))

\* C16: with PLAIN the client sends one AUTH PLAIN frame carrying
\* base64(username NUL username NUL password) and no other AUTH frame; once it
\* has read the reply, a positive one lets the handshake succeed and a
\* non-positive one fails connect with "authentication failed", after which
\* nothing is written and the envelope never starts.
C16_PlainExchange ==
    (\E k \in 1..Len(cmds) : cmds[k] = "AUTH PLAIN") =>
        /\ AuthSent = <<"AUTH PLAIN">>
        /\ cmds[Len(cmds)] = "AUTH PLAIN"
        /\ WireTail(5) = <<"AUTH", "PLAIN", "b64(user NUL user NUL pass)", CR, LF>>
        /\ pc = "auth_await" => connResult = "pending"
        /\ (pc # "auth_await" /\ Answered("AUTH PLAIN")) =>
              IF IsPositive(SentTo("AUTH PLAIN").code)
              THEN pc \in {"hs_returned", "connected", "envelope"}
                   /\ connResult \in {"pending", "ok"}
              ELSE pc = "failed" /\ connResult = "authentication failed"
        /\ (pc # "auth_await" /\ ~Answered("AUTH PLAIN")) =>
              pc = "failed" /\ connResult = "connection closed during auth"

\* C16 witness: the server answered AUTH PLAIN with 535 and connect has failed.
C16_Witness ==
    /\ Answered("AUTH PLAIN")
    /\ SentTo("AUTH PLAIN").code = "535"
    /\ pc = "failed"
    /\ connResult = "authentication failed"
    /\ WireTail(5) = RenderAuthPlain

\* The handshake has read the banner the server sent.
BannerRead == Len(srvSent) >= 1 /\ cmds # <<>> /\ pc # "hs_await_opening"

\* C17: once the handshake has read the banner, it has gone on only if the
\* banner is positive and the second word of its first text line is ESMTP; with
\* any other banner connect has failed with "invalid handshake" and nothing was
\* read or written after it.
C17_OpeningCheck ==
    BannerRead =>
        LET banner == srvSent[1]
            line == IF Len(banner.text) >= 1 THEN banner.text[1] ELSE <<>>
        IN  IF IsPositive(banner.code) /\ Len(line) >= 2 /\ line[2] = "ESMTP"
            THEN connResult \notin {"invalid handshake", "connection closed before handshake"}
            ELSE /\ pc = "failed"
                 /\ connResult = "invalid handshake"
                 /\ cmds = <<"EHLO">>
                 /\ ehlo_response = NoReply

\* C17 witness: a positive banner whose third word, not its second, is ESMTP.
C17_Witness ==
    /\ BannerRead
    /\ srvSent[1] = [code |-> "220", text |-> <<<<"host", "SMTP", "ESMTP">>>>]
    /\ pc = "failed"
    /\ connResult = "invalid handshake"

\* The position in cmds of the last EHLO sent.
LastEhlo ==
    CHOOSE k \in 1..Len(cmds) : cmds[k] = "EHLO" /\ \A h \in (k + 1)..Len(cmds) : cmds[h] # "EHLO"

\* C18: whenever a handshake has succeeded, the response it returns is the
\* reply the server sent to the EHLO of that handshake, code and text lines
\* unchanged and in order: not the banner, not an earlier handshake's EHLO reply
\* and not an AUTH reply.
C18_ReturnsEhloReply ==
    pc = "hs_returned" =>
        /\ LastEhlo + 1 <= Len(srvSent)
        /\ ehlo_response = srvSent[LastEhlo + 1]
        /\ ehlo_response.text = srvSent[LastEhlo + 1].text

\* C18 witness: the second handshake, after the TLS upgrade, has authenticated
\* with PLAIN and returns the three capability lines of the second EHLO reply.
C18_Witness ==
    /\ pc = "hs_returned"
    /\ tlsUpgrades = 1
    /\ AuthSent = <<"AUTH PLAIN">>
    /\ LastEhlo > 1
    /\ srvSent[2].text = <<<<"host">>, <<"STARTTLS">>>>
    /\ ehlo_response.text = <<<<"host">>, <<"STARTTLS">>, <<"AUTH", "PLAIN", "LOGIN">>>>

\* The phases in which the client awaits a reply, and the error each names.
ClosedError(phase) ==
    CASE phase = "hs_await_opening" -> "connection closed before handshake"
      [] phase = "hs_await_ehlo" -> "connection closed during handshake"
      [] phase = "starttls_await" -> "connection closed before starttls"
      [] phase = "auth_await" -> "connection closed during auth"

ClosedWhileAwaiting(phase) ==
    (pc = phase /\ StreamEnded /\ pc' # pc) =>
        /\ pc' = "failed"
        /\ connResult' = ClosedError(phase)
        /\ wire' = wire
        /\ cmds' = cmds

\* C19: when the stream ends while the client awaits the banner, the EHLO
\* reply, the STARTTLS reply or an AUTH reply, the client's next step fails
\* connect with the error of that phase, writing nothing; and after a failure
\* the client never writes again.
C19_ClosedIdentifiesPhase ==
    [][ /\ \A phase \in {"hs_await_opening", "hs_await_ehlo", "starttls_await", "auth_await"} :
              ClosedWhileAwaiting(phase)
        /\ pc = "failed" =>
              (pc' = "failed" /\ wire' = wire /\ cmds' = cmds /\ connResult' = connResult)
      ]_vars

\* C19 witness: the server closed instead of answering STARTTLS.
C19_Witness ==
    /\ pc = "failed"
    /\ srvClosed
    /\ connResult = "connection closed before starttls"
    /\ cmds = <<"EHLO", "STARTTLS">>
    /\ Len(srvSent) = 2

\* ------------------------------------------------------ request formatting
MaxStr == 2
MaxParams == 2

\* A String, as the sequence of its characters.
Strings == SeqsUpTo({"a", CR, LF}, MaxStr)

ClientIds ==
    {[variant |-> "Domain", tag |-> <<>>, value |-> v] : v \in Strings}
    \cup {[variant |-> "Ipv4", tag |-> <<>>, value |-> <<"127.0.0.1">>],
          [variant |-> "Ipv6", tag |-> <<>>, value |-> <<"::1">>],
          [variant |-> "Other", tag |-> <<"t">>, value |-> <<"v">>]}

Mailboxes ==
    {[some |-> FALSE, email |-> <<>>],
     [some |-> TRUE, email |-> <<"john", "@", "example.test">>]}

None == [some |-> FALSE, v |-> <<>>]
Some(v) == [some |-> TRUE, v |-> v]

MailParams ==
    {[variant |-> "EightBitMime", size |-> 0, keyword |-> <<>>, value |-> None],
     [variant |-> "Size", size |-> 7, keyword |-> <<>>, value |-> None],
     [variant |-> "Size", size |-> 1024, keyword |-> <<>>, value |-> None],
     [variant |-> "Other", size |-> 0, keyword |-> <<"K">>, value |-> None],
     [variant |-> "Other", size |-> 0, keyword |-> <<"K">>, value |-> Some(<<"v">>)]}

RcptParams ==
    {[variant |-> "Other", size |-> 0, keyword |-> <<"K">>, value |-> None],
     [variant |-> "Other", size |-> 0, keyword |-> <<"K">>, value |-> Some(<<"v">>)]}

NoMailbox == [some |-> FALSE, email |-> <<>>]
NoClientId == [variant |-> "Domain", tag |-> <<>>, value |-> <<>>]

Req(kind, id, mailbox, params) ==
    [kind |-> kind, id |-> id, mailbox |-> mailbox, params |-> params]

Requests ==
    {Req("Ehlo", id, NoMailbox, <<>>) : id \in ClientIds}
    \cup {Req(k, NoClientId, NoMailbox, <<>>) : k \in {"StartTls", "Data", "Quit"}}
    \cup {Req("Mail", NoClientId, m, ps) : m \in Mailboxes, ps \in SeqsUpTo(MailParams, MaxParams)}
    \cup {Req("Rcpt", NoClientId, m, ps) : m \in Mailboxes, ps \in SeqsUpTo(RcptParams, MaxParams)}

\* usize with "{}": the decimal digits.
RECURSIVE FmtUsize(_)
FmtUsize(n) ==
    IF n < 10 THEN <<ToString(n)>> ELSE FmtUsize(n \div 10) \o <<ToString(n % 10)>>

\* Display for ClientId.
FmtClientId(id) ==
    CASE id.variant = "Domain" -> id.value
      [] id.variant = "Ipv4" -> id.value
      [] id.variant = "Ipv6" -> <<"IPv6:">> \o id.value
      [] id.variant = "Other" -> id.tag \o <<":">> \o id.value

\* Display for Mailbox.
FmtMailbox(m) == IF m.some THEN <<"<">> \o m.email \o <<">">> ELSE <<"<", ">">>

\* Display for MailParam and for RcptParam.
FmtMailParam(p) ==
    CASE p.variant = "EightBitMime" -> <<"8BITMIME">>
      [] p.variant = "Size" -> <<"SIZE=">> \o FmtUsize(p.size)
      [] p.variant = "Other" /\ p.value.some -> p.keyword \o <<"=">> \o p.value.v
      [] p.variant = "Other" /\ ~p.value.some -> p.keyword

FmtRcptParam(p) ==
    IF p.value.some THEN p.keyword \o <<"=">> \o p.value.v ELSE p.keyword

\* for param in params { write!(f, " {}", param)?; }
RECURSIVE FmtMailParams(_, _)
FmtMailParams(params, i) ==
    IF i > Len(params) THEN <<>>
    ELSE <<" ">> \o FmtMailParam(params[i]) \o FmtMailParams(params, i + 1)

RECURSIVE FmtRcptParams(_, _)
FmtRcptParams(params, i) ==
    IF i > Len(params) THEN <<>>
    ELSE <<" ">> \o FmtRcptParam(params[i]) \o FmtRcptParams(params, i + 1)

\* Display for Request.
FmtRequest(req) ==
    CASE req.kind = "Ehlo" -> <<"EHLO ">> \o FmtClientId(req.id) \o <<CR, LF>>
      [] req.kind = "StartTls" -> <<"STARTTLS", CR, LF>>
      [] req.kind = "Mail" ->
            <<"MAIL FROM:">> \o FmtMailbox(req.mailbox) \o FmtMailParams(req.params, 1) \o <<CR, LF>>
      [] req.kind = "Rcpt" ->
            <<"RCPT TO:">> \o FmtMailbox(req.mailbox) \o FmtRcptParams(req.params, 1) \o <<CR, LF>>
      [] req.kind = "Data" -> <<"DATA", CR, LF>>
      [] req.kind = "Quit" -> <<"QUIT", CR, LF>>

\* request.to_string()
ToStringRequest ==
    /\ request.kind # "None"
    /\ rendered = <<>>
    /\ rendered' = FmtRequest(request)
    /\ UNCHANGED <<escape_count, wire, encVars, decVars, sessVars, request>>

InitFmt ==
    /\ escape_count = 0
    /\ wire = <<>>
    /\ EncIdle
    /\ DecIdle
    /\ SessIdle
    /\ request \in Requests
    /\ rendered = <<>>

NextFmt == ToStringRequest

SpecFmt == InitFmt /\ [][NextFmt]_vars

\* How many times CR LF occurs in s.
CrlfCount(s) == Cardinality({i \in 1..(Len(s) - 1) : s[i] = CR /\ s[i + 1] = LF})

\* The wire-format table: the command, its argument, one " <param>" per
\* parameter in order, CR LF.
RECURSIVE TableParams(_)
TableParams(ps) ==
    IF ps = <<>> THEN <<>>
    ELSE LET p == Head(ps)
             word == CASE p.variant = "EightBitMime" -> <<"8BITMIME">>
                       [] p.variant = "Size" /\ p.size = 7 -> <<"SIZE=", "7">>
                       [] p.variant = "Size" /\ p.size = 1024 -> <<"SIZE=", "1", "0", "2", "4">>
                       [] p.variant = "Other" ->
                             IF p.value.some THEN p.keyword \o <<"=">> \o p.value.v
                             ELSE p.keyword
         IN  <<" ">> \o word \o TableParams(Tail(ps))

TableAddr(m) == IF m.some THEN <<"<">> \o m.email \o <<">">> ELSE <<"<", ">">>

TableId(id) ==
    CASE id.variant = "Ipv6" -> <<"IPv6:", "::1">>
      [] id.variant = "Ipv4" -> <<"127.0.0.1">>
      [] id.variant = "Other" -> <<"t", ":", "v">>
      [] id.variant = "Domain" -> id.value

Table(req) ==
    CASE req.kind = "Ehlo" -> <<"EHLO ">> \o TableId(req.id)
      [] req.kind = "StartTls" -> <<"STARTTLS">>
      [] req.kind = "Mail" -> <<"MAIL FROM:">> \o TableAddr(req.mailbox) \o TableParams(req.params)
      [] req.kind = "Rcpt" -> <<"RCPT TO:">> \o TableAddr(req.mailbox) \o TableParams(req.params)
      [] req.kind = "Data" -> <<"DATA">>
      [] req.kind = "Quit" -> <<"QUIT">>

\* C20: every rendered request is its row of the wire-format table followed by
\* CR LF, the empty mailbox renders as <>, and the rendering holds exactly one
\* CR LF, at its end.
C20_RenderingTable ==
    rendered # <<>> =>
        /\ rendered = Table(request) \o <<CR, LF>>
        /\ (request.kind \in {"Mail", "Rcpt"} /\ ~request.mailbox.some) =>
              SubSeq(rendered, 2, 3) = <<"<", ">">>
        /\ CrlfCount(rendered) = 1

\* C21: a handshake that awaits the opening writes no byte of its EHLO until
\* it has read a positive banner whose first line has ESMTP as second word; in
\* particular no EHLO is on the wire while the banner is awaited or after an
\* invalid one.
C21_BannerBeforeEhlo ==
    wire # <<>> =>
        /\ pc # "hs_await_opening"
        /\ connResult \notin {"invalid handshake", "connection closed before handshake"}
        /\ Len(srvSent) >= 1
        /\ IsPositive(srvSent[1].code)
        /\ esmtp(srvSent[1])

\* C22: in the STARTTLS modes, whenever the TLS upgrade has been started, the
\* transport is Secure or a second EHLO is on the wire, the STARTTLS command
\* was written before, the server answered it positively and the client has
\* read that reply.
C22_StartTlsBarrier ==
    ( /\ security \in {"Optional", "Required"}
      /\ \/ tlsUpgrades > 0
         \/ io = "Secure"
         \/ Len(SelectSeq(cmds, LAMBDA c : c = "EHLO")) > 1 )
    => /\ Answered("STARTTLS")
       /\ IsPositive(SentTo("STARTTLS").code)
       /\ pc # "starttls_await"
       /\ SubSeq(wire, 1, Len(RenderEhlo \o RenderStartTls)) = RenderEhlo \o RenderStartTls

\* The methods on the first AUTH line of a reply's text.
OfferedBy(text) ==
    IF \E i \in 1..Len(text) : IsAuthLine(text[i])
    THEN LET i == CHOOSE j \in 1..Len(text) :
                     IsAuthLine(text[j]) /\ \A h \in 1..(j - 1) : ~IsAuthLine(text[h])
         IN  {text[i][m] : m \in 2..Len(text[i])}
    ELSE {}

\* C23: in the STARTTLS modes the first handshake (on Plain, do_auth false)
\* sends no AUTH; once the transport is Secure the upgrade has run once, the
\* handshake runs with await_opening false and do_auth true, never awaits a
\* banner, has sent a second EHLO right after STARTTLS, and any AUTH it sends
\* uses a method offered by the reply to that second EHLO.
C23_SecondHandshake ==
    security \in {"Optional", "Required"} =>
        /\ io = "Plain" => (AuthSent = <<>> /\ ~do_auth)
        /\ io = "Secure" =>
              /\ tlsUpgrades = 1
              /\ ~await_opening
              /\ do_auth
              /\ pc # "hs_await_opening"
              /\ Len(srvSent) >= 3
              /\ pc # "hs_send_ehlo" =>
                    /\ SubSeq(cmds, 1, 3) = <<"EHLO", "STARTTLS", "EHLO">>
                    /\ wire = RenderEhlo \o RenderStartTls \o RenderEhlo \o SubSeq(wire, 12, Len(wire))
              /\ AuthSent # <<>> =>
                    /\ auth
                    /\ Len(srvSent) >= 4
                    /\ ehlo_response \in {srvSent[4], NoReply}
                    /\ AuthSent[1] = "AUTH PLAIN" => "PLAIN" \in OfferedBy(srvSent[4].text)
                    /\ AuthSent[1] = "AUTH LOGIN" =>
                          ("LOGIN" \in OfferedBy(srvSent[4].text) /\ "PLAIN" \notin OfferedBy(srvSent[4].text))

\* C23 witness: the reply to the first EHLO offered PLAIN, the reply to the
\* second offers LOGIN only, and the second handshake has used LOGIN.
C23_Witness ==
    /\ security = "Required"
    /\ io = "Secure"
    /\ cmds = <<"EHLO", "STARTTLS", "EHLO", "AUTH LOGIN", "AUTH CONT">>
    /\ srvSent[2].text = <<<<"host">>, <<"STARTTLS">>, <<"AUTH", "PLAIN", "LOGIN">>>>
    /\ srvSent[4].text = <<<<"host">>, <<"AUTH", "LOGIN">>>>
    /\ pc = "hs_returned"

\* The bytes of the replies the server sent from its reply to cmds[k] on.
SentSince(k) == RepliesBytes(SubSeq(srvSent, k + 1, Len(srvSent)))

\* C24: with LOGIN the client sends AUTH LOGIN with base64(username) and then
\* the continuation with base64(password) and no other AUTH frame; until both
\* are sent it has read nothing of what the server answered; the one reply it
\* then reads is the server's answer to the continuation, the 334 before it
\* being dropped: positive for success, non-positive for "authentication
\* failed".
C24_LoginExchange ==
    (\E k \in 1..Len(cmds) : cmds[k] = "AUTH LOGIN") =>
        LET k == IndexOf("AUTH LOGIN")
        IN  /\ k = Len(cmds) \/ (k + 1 = Len(cmds) /\ cmds[k + 1] = "AUTH CONT")
            /\ (pc = "auth_login_password") <=> (k = Len(cmds))
            /\ pc = "auth_login_password" =>
                  WireTail(5) = <<"AUTH", "LOGIN", "b64(user)", CR, LF>>
            /\ pc # "auth_login_password" =>
                  WireTail(8) = <<"AUTH", "LOGIN", "b64(user)", CR, LF, "b64(pass)", CR, LF>>
            /\ pc \in {"auth_login_password", "auth_await"} =>
                  (rbuf \o net = SentSince(k) /\ connResult = "pending")
            /\ pc \notin {"auth_login_password", "auth_await"} =>
                  IF Answered("AUTH CONT")
                  THEN IF IsPositive(SentTo("AUTH CONT").code)
                       THEN pc \in {"hs_returned", "connected", "envelope"}
                            /\ connResult \in {"pending", "ok"}
                       ELSE pc = "failed" /\ connResult = "authentication failed"
                  ELSE pc = "failed" /\ connResult = "connection closed during auth"

\* C24 witness: the server prompted with 334 and answered the password with
\* 535; connect has failed.
C24_Witness ==
    /\ AuthSent = <<"AUTH LOGIN", "AUTH CONT">>
    /\ srvSent[Len(srvSent) - 1].code = "334"
    /\ srvSent[Len(srvSent)].code = "535"
    /\ pc = "failed"
    /\ connResult = "authentication failed"

\* C25: in every step the transport either keeps its state or goes from Plain
\* to Secure, which happens at most once and only by the one TLS upgrade; the
\* upgrader is invoked at most once; unwrap_plain never meets a Secure
\* transport, so its panic is never reached.
C25_PlainToSecureOnce ==
    [][ /\ io = "Secure" => io' = "Secure"
        /\ io' # io => (io = "Plain" /\ io' = "Secure" /\ tlsUpgrades = 0 /\ tlsUpgrades' = 1)
        /\ tlsUpgrades' \in {tlsUpgrades, tlsUpgrades + 1}
        /\ tlsUpgrades' <= 1
        /\ pc = "tls_upgrade" => io = "Plain"
        /\ pc' # "panic"
      ]_vars

\* C25 witness: a STARTTLS session that was upgraded and is connected.
C25_Witness ==
    /\ security = "Optional"
    /\ io = "Secure"
    /\ tlsUpgrades = 1
    /\ pc = "connected"
    /\ cmds[2] = "STARTTLS"

\* C26: when the framed plain transport is about to be dismantled for the TLS
\* upgrade, its read buffer is empty, nothing the server sent is still unread,
\* and the server has sent exactly its banner and one reply for each of the two
\* commands written, all of which the client has consumed.
C26_NothingBufferedAtUpgrade ==
    pc = "tls_upgrade" =>
        /\ rbuf = <<>>
        /\ net = <<>>
        /\ cmds = <<"EHLO", "STARTTLS">>
        /\ wire = RenderEhlo \o RenderStartTls
        /\ srvReplied = 2
        /\ Len(srvSent) = 3

\* C26 witness: the STARTTLS reply was positive and the upgrade is next.
C26_Witness ==
    /\ pc = "tls_upgrade"
    /\ security = "Required"
    /\ srvTls
    /\ srvSent[3].code = "220"
    /\ rbuf = <<>>

\* ------------------------------------------- decode on arbitrary buffers
\* A byte that fits nowhere in a reply line.
JunkTok == <<"junk">>

\* Read buffers: every prefix of a stream of up to MaxReplies replies, as it is
\* or followed by a byte that cannot continue it.
DecStreams == {RepliesBytes(rs) : rs \in SeqsUpTo(DecReplies, MaxReplies)}

DecBuffers ==
    LET prefixes == UNION {{SubSeq(st, 1, n) : n \in 0..Len(st)} : st \in DecStreams}
    IN  prefixes \cup {b \o <<JunkTok>> : b \in prefixes}

InitDecBuf ==
    /\ FmtIdle
    /\ escape_count = 0
    /\ wire = <<>>
    /\ EncIdle
    /\ rbuf \in DecBuffers
    /\ inReplies = <<>>
    /\ arrived = 0
    /\ frames = <<>>
    /\ decErr = FALSE
    /\ SessIdle

NextDecBuf == DecDecode

SpecDecBuf == InitDecBuf /\ [][NextDecBuf]_vars

\* b is the beginning of some reply, short of its end.
IncompleteReply(b) ==
    \E r \in DecReplies : Len(b) < Len(ReplyBytes(r)) /\ b = SubSeq(ReplyBytes(r), 1, Len(b))

AllIntermediate(rs) == \A i \in 1..Len(rs) : Severity(rs[i].code) = "PositiveIntermediate"

\* C27: a call of decode removes from the front of the read buffer a sequence
\* of complete replies and nothing else. With a frame returned, these are 3xx
\* replies followed by the frame's reply. With no frame and no error, they are
\* 3xx replies only and what stays is an incomplete reply (so a buffer holding
\* only an incomplete reply stays as it is). With an error, what stays after
\* the dropped 3xx replies is no beginning of a reply.
C27_DecodeBufferEffect ==
    [][ \E rs \in SeqsUpTo(DecReplies, MaxReplies) :
          /\ rbuf = RepliesBytes(rs) \o rbuf'
          /\ IF decErr' THEN /\ frames' = frames
                             /\ AllIntermediate(rs)
                             /\ ~IncompleteReply(rbuf')
                             /\ \A r \in DecReplies :
                                   Len(rbuf') < Len(ReplyBytes(r))
                                   \/ SubSeq(rbuf', 1, Len(ReplyBytes(r))) # ReplyBytes(r)
             ELSE IF frames' # frames
             THEN /\ rs # <<>>
                  /\ frames' = Append(frames, rs[Len(rs)])
                  /\ Severity(rs[Len(rs)].code) # "PositiveIntermediate"
                  /\ AllIntermediate(SubSeq(rs, 1, Len(rs) - 1))
             ELSE /\ AllIntermediate(rs)
                  /\ IncompleteReply(rbuf')
      ]_vars

\* C27 witness: decode has returned the frame 250 ok and left the incomplete
\* reply that followed it in the buffer.
C27_Witness ==
    /\ pc = "off"
    /\ inReplies = <<>>
    /\ frames = << [code |-> "250", text |-> <<<<"ok">>>>] >>
    /\ ~decErr
    /\ rbuf = <<CodeTok("550"), SepLast>>

\* The tokens of an AUTH frame: the verb and the credentials.
AuthTokens == {"AUTH", "b64(user NUL user NUL pass)", "b64(user)", "b64(pass)"}

\* C28: in the modes Optional and Required, every step that writes a token of
\* an AUTH frame is taken on the Secure transport, and as long as the transport
\* is Plain no AUTH frame has been sent and no credential is on the wire.
C28_NoAuthOnPlain ==
    [][ (security \in {"Optional", "Required"}) =>
          /\ (\E i \in (Len(wire) + 1)..Len(wire') : wire'[i] \in AuthTokens) =>
                (io = "Secure" /\ io' = "Secure")
          /\ io' = "Plain" =>
                (AuthSent' = <<>> /\ \A i \in 1..Len(wire') : wire'[i] \notin AuthTokens)
      ]_vars

\* C28 witness: Optional, credentials set, the server offers AUTH but not
\* STARTTLS: connect has succeeded on Plain and no AUTH was written.
C28_Witness ==
    /\ security = "Optional"
    /\ auth
    /\ io = "Plain"
    /\ pc = "connected"
    /\ srvSent[2].text = <<<<"host">>, <<"AUTH", "LOGIN", "PLAIN">>>>
    /\ wire = RenderEhlo

\* C29: with security Required, whenever connect has succeeded (and for as long
\* as the envelope runs) the transport is Secure: STARTTLS was sent and answered
\* positively and the upgrader ran once.  A Required session on a Plain
\* transport is never connected.
C29_RequiredIsSecure ==
    (security = "Required" /\ pc \in {"connected", "envelope", "done"}) =>
        /\ io = "Secure"
        /\ tlsUpgrades = 1
        /\ Answered("STARTTLS")
        /\ IsPositive(SentTo("STARTTLS").code)

\* C29 witness: a Required session that is connected after the upgrade.
C29_Witness ==
    /\ security = "Required"
    /\ pc = "connected"
    /\ connResult = "ok"
    /\ io = "Secure"
    /\ cmds[2] = "STARTTLS"

\* ------------------------------------------ encoder: frames in any order
\* encode called with any sequence of frames: Message frames may come between
\* the chunks of a body, bodies follow one another.  body collects the chunk
\* bytes handed over, emitted what the chunk arms put in buf.
Chunks == SeqsUpTo(Byte, MaxChunk)

InitEncAny ==
    /\ FmtIdle
    /\ escape_count = 0
    /\ wire = <<>>
    /\ body = <<>>
    /\ pos = 0
    /\ encPhase = "frames"
    /\ bodyStart = 0
    /\ cuts = {}
    /\ endFrom = -1
    /\ endAt = 0
    /\ emitted = <<>>
    /\ DecIdle
    /\ SessIdle

\* encode(Frame::Message)
EncAnyMessage ==
    /\ encPhase = "frames"
    /\ Len(wire) < MaxWire
    /\ wire' = wire \o RenderData
    /\ UNCHANGED <<fmtVars, escape_count, encVars, decVars, sessVars>>

\* encode(Frame::Body { chunk: Some(chunk) })
EncAnyChunk ==
    /\ encPhase = "frames"
    /\ Len(wire) < MaxWire
    /\ \E chunk \in Chunks :
          LET r == EncodeChunk(escape_count, chunk)
          IN  /\ wire' = wire \o r.buf
              /\ escape_count' = r.escape_count
              /\ emitted' = emitted \o r.buf
              /\ body' = body \o chunk
              /\ pos' = pos + Len(chunk)
    /\ UNCHANGED <<fmtVars, encPhase, bodyStart, cuts, endFrom, endAt, decVars, sessVars>>

\* encode(Frame::Body { chunk: None })
EncAnyBodyEnd ==
    /\ encPhase = "frames"
    /\ Len(wire) < MaxWire
    /\ wire' = wire \o BodyEndBytes(escape_count)
    /\ escape_count' = 0
    /\ endFrom' = escape_count
    /\ endAt' = Len(wire)
    /\ UNCHANGED <<fmtVars, body, pos, encPhase, bodyStart, cuts, emitted, decVars, sessVars>>

NextEncAny == EncAnyMessage \/ EncAnyChunk \/ EncAnyBodyEnd

SpecEncAny == InitEncAny /\ [][NextEncAny]_vars

\* C30: after every encode call escape_count is 0, 1 or 2; it is 1 only if the
\* last body byte emitted is CR and 2 only if the last two body bytes emitted
\* are CR LF; a call that encodes a Message frame leaves it unchanged.
C30_EscapeCountRange ==
    [][ /\ escape_count' \in {0, 1, 2}
        /\ escape_count' = 1 =>
              (Len(emitted') >= 1 /\ emitted'[Len(emitted')] = CR)
        /\ escape_count' = 2 =>
              (Len(emitted') >= 2 /\ Suffix(emitted', 2) = <<CR, LF>>)
        /\ (wire' = wire \o RenderData /\ emitted' = emitted) =>
              escape_count' = escape_count
      ]_vars

\* C30 witness: a chunk ending in CR, a Message frame, then the chunk LF: the
\* counter went 1, 1, 2 although CR and LF are not adjacent on the wire.
C30_Witness ==
    /\ encPhase = "frames"
    /\ wire = <<CR>> \o RenderData \o <<LF>>
    /\ emitted = <<CR, LF>>
    /\ escape_count = 2

\* C31: the step that reads the EHLO reply does not look at its severity: with
\* auth unset or do_auth false, a reply of negative severity ends the handshake
\* successfully, with that reply as its item and nothing written; and under
\* security None the stream of a handshake that has returned is connect's
\* result.
C31_EhloSeverityIgnored ==
    [][ /\ ( /\ pc = "hs_await_ehlo"
             /\ pc' # pc
             /\ FrameReady
             /\ ~IsPositive(Avail.frame.code)
             /\ (~auth \/ ~do_auth) ) =>
                ( /\ pc' = "hs_returned"
                  /\ ehlo_response' = Avail.frame
                  /\ connResult' = connResult
                  /\ wire' = wire
                  /\ cmds' = cmds )
        /\ (pc = "hs_returned" /\ pc' # pc /\ security = "None") =>
                (pc' = "connected" /\ connResult' = "ok")
      ]_vars

\* C31 witness: security None, no credentials, EHLO answered with 550, and the
\* envelope has started.
C31_Witness ==
    /\ security = "None"
    /\ ~auth
    /\ Len(srvSent) >= 2
    /\ srvSent[2].code = "550"
    /\ connResult = "ok"
    /\ pc = "envelope"

\* The three writes of the pipeline: a request, a chunk of the body, BodyEnd.
PipelineWrites == PipelineWrite \/ PipelineWriteChunk \/ PipelineWriteBodyEnd

\* C32: as long as something of the envelope is unwritten the pipeline can write
\* it, whatever replies have been read; sendmail has no result while the
\* envelope runs; and a bad-SMTP-response result exists only when MAIL, every
\* RCPT, DATA, the body with its terminator and QUIT are all on the wire, the
\* server has answered QUIT and that reply has been delivered to QUIT's call.
C32_CheckedAfterAllReplies ==
    /\ (pc = "envelope" /\ ~AllWritten) => ENABLED PipelineWrites
    /\ pc = "envelope" => result.kind = "pending"
    /\ result.kind = "BadSmtpResponse" =>
          /\ pc = "done"
          /\ AllWritten
          /\ EnvWire = EnvelopeWire
          /\ AllResponded
          /\ cmds[Len(cmds)] = "QUIT"
          /\ srvReplied = Len(cmds)
          /\ responses[Len(responses)] = srvSent[Len(srvSent)]

\* C32 witness: MAIL was refused with 550, yet the recipient, DATA, the body and
\* QUIT were written, and the error came after the 221 to QUIT.
C32_Witness ==
    /\ pc = "done"
    /\ nrcpt = 1
    /\ body = <<"X">>
    /\ EnvWire = EnvelopeWire
    /\ responses[1].code = "550"
    /\ responses[2].code = "250"
    /\ responses[3].code = "250"
    /\ responses[4].code = "221"
    /\ result = [kind |-> "BadSmtpResponse", code |-> "550"]

\* ------------------------------------------------------------- termination
\* The runs followed for termination: connect from its start with every
\* security mode, with and without credentials; sendmail on a service that is
\* already connected, with one recipient and an empty or a stuffed body.
LiveRcpts == {1}
LiveBodies == {<<>>, <<CR, LF, DOT>>}

InitLive ==
    \/ Init /\ nrcpt = 0
    \/ InitSend /\ security = "None" /\ nrcpt \in LiveRcpts /\ body \in LiveBodies

\* No handshake was written in this run: the service was handed over connected.
NoHandshakeSeen == \A k \in 1..Len(cmds) : cmds[k] # "EHLO"

\* A run that began with connect is followed up to the submission of the
\* envelope, a run on a connected service through sendmail.
NextLive == Next \/ (NoHandshakeSeen /\ NextSend)

\* The steps of the client's task: the futures of connect and sendmail and the
\* pipeline, polled whenever they can make progress.
ClientStep ==
    \/ Connect \/ TlsImmediate \/ HsSendEhlo \/ HsOpening \/ HsEhloReply
    \/ AuthLoginPassword \/ AuthReply \/ HsReturned \/ StartTlsReply \/ TlsUpgrade
    \/ SendmailSubmit \/ PipelineWrite \/ PipelineWriteChunk \/ PipelineWriteBodyEnd
    \/ PipelineRead \/ PipelineClosed \/ SendmailResolve

\* The client's task is scheduled fairly; the server sends its greeting and
\* answers every command it has received, unless it closes the connection,
\* which it may do at any time or never.
Fairness == WF_vars(ClientStep) /\ WF_vars(ServerBanner) /\ WF_vars(ServerReply)

SpecLive == InitLive /\ [][NextLive]_vars /\ Fairness

\* The command whose reply the client is waiting for is the last one written.
AwaitedIsWritten ==
    /\ pc = "hs_await_ehlo" => (cmds # <<>> /\ cmds[Len(cmds)] = "EHLO")
    /\ pc = "starttls_await" => (cmds # <<>> /\ cmds[Len(cmds)] = "STARTTLS")
    /\ pc = "auth_await" => (cmds # <<>> /\ cmds[Len(cmds)] \in {"AUTH PLAIN", "AUTH CONT"})
    /\ (pc = "envelope" /\ NoHandshakeSeen /\ in_flight = <<>> /\ ~AllResponded) =>
          ENABLED PipelineWrites

\* C33: under fair scheduling, with a server that answers or closes, connect
\* eventually resolves (connected or failed) and sendmail eventually resolves
\* (done, with success or an error); and whenever the client waits for a reply,
\* the command it belongs to has been written.
C33_Resolves ==
    /\ (pc = "start") ~> (pc \in {"connected", "failed"})
    /\ (pc = "envelope" /\ NoHandshakeSeen) ~> (pc = "done")
    /\ []AwaitedIsWritten

\* C33 witness: the server closed without answering QUIT, and sendmail resolved
\* with the error of the closed connection after the whole envelope was written.
C33_Witness ==
    /\ NoHandshakeSeen
    /\ pc = "done"
    /\ srvClosed
    /\ AllWritten
    /\ body = <<CR, LF, DOT>>
    /\ srvReplied < Len(cmds)
    /\ result = [kind |-> "Io", code |-> "connection closed"]

====
